---- MODULE Spec2Model ----
(***************************************************************************)
(* Model of the hawk TUI core: the ImageList selection state machine       *)
(* (src/hawk/app.py), the Ollama prompt enhancer                           *)
(* (src/hawk/ollama_client.py) and the generation orchestrator             *)
(* (src/hawk/image_generator.py).                                          *)
(*                                                                         *)
(* Eight specifications share this module:                                 *)
(*   Spec         the ImageList widget driven through its public methods   *)
(*   SpecEnhance  ollama_client.enhance_prompt applied to bounded inputs   *)
(*   SpecGen      image_generator.generate_image, one call at a time       *)
(*   SpecSession  a HawkApp session: key handlers and background workers   *)
(*   SpecBrowse   a HawkApp session of browsing, selecting and deleting    *)
(*   SpecRender   ImageList.render's visible window over lists and cursors *)
(*   SpecMain     a process from its entry point to the start of the TUI   *)
(*   SpecBatch    image_generator.generate_batch, one call at a time       *)
(***************************************************************************)
EXTENDS Integers, Sequences, FiniteSets, TLC

\* ------------------------------------------------------------------------
\* Bounds of the model
\* ------------------------------------------------------------------------

\* Longest image list handed to set_images.
MaxLen == 3

\* Image files are numbered; a list handed to set_images is a run of
\* consecutive files starting at one of these.
FirstFiles == {1, 2}

\* Most commas and spaces placed in one text of the enhancement service.
MaxBreaks == 2

\* Largest num_outputs asked of generate_image, and most paths a backend
\* hands back.
MaxOutputs == 2

\* Longest list ImageList.render is given.
MaxItems == 30

\* Most prompts handed to one generate_batch call.
MaxPrompts == 3

VARIABLES
    images,     \* ImageList._images          (app.py:47)
    cursor,     \* ImageList.cursor           (app.py:43)
    selected,   \* ImageList._selected        (app.py:48)
    op,         \* name of the last ImageList method that ran
    arg,        \* the argument that call was given (<<>> when it takes none)
    pre         \* the ImageList state that method started from

listVars == <<images, cursor, selected, op, arg, pre>>

VARIABLES
    prompt,     \* enhance_prompt / _maybe_enhance_prompt: the caller's prompt
    svc,        \* what the POST to /api/chat does on this call
    probe,      \* what ollama_client.is_available() answers on this call
    useOllama,  \* config.USE_OLLAMA as _maybe_enhance_prompt reads it
    ecall,      \* which of the two functions has been called ("none" before)
    eres        \* what that call gave back to its caller

enhVars == <<prompt, svc, probe, useOllama, ecall, eres>>

VARIABLES
    useLocal,      \* config.USE_LOCAL_IMAGE_GEN
    gpc,           \* where the current generate_image call stands
    genhance,      \* generate_image: the enhance_prompt argument
    num_outputs,   \* generate_image: the num_outputs argument
    metadata,      \* generate_image: the metadata dict
    final_prompt,  \* generate_image: the final_prompt local
    calls,         \* the collaborators called so far, in order
    gres           \* what generate_image gave back to its caller

genVars == <<useLocal, gpc, genhance, num_outputs, metadata, final_prompt, calls, gres>>

VARIABLES
    app,              \* HawkApp: "constructed", "running" or "crashed"
    current_project,  \* HawkApp.current_project            (app.py:279)
    storage,          \* the files in each project's images directory
    message,          \* StatusBar.message                  (app.py:153)
    is_working,       \* StatusBar.is_working               (app.py:154)
    input,            \* value of the #prompt-input Input   (app.py:302)
    workers,          \* the threads started by @work and their locals
    thr,              \* the thread the last step ran on
    attempts,         \* the delete_image calls of the last step, in order
    keys              \* how many keys the operator has pressed

sessVars == <<app, current_project, storage, message, is_working, input,
              workers, thr, attempts, keys>>

VARIABLE
    window            \* what ImageList.render last showed     (app.py:101-147)

renderVars == <<window>>

VARIABLES
    proc,             \* the process: entry point, argv, first-run answers
    mpc,              \* where main() stands
    preloads,         \* how often local_image_gen.preload_model was called
    loading           \* a preload_model call has not returned yet

mainVars == <<proc, mpc, preloads, loading>>

VARIABLES
    prompts,          \* generate_batch: the prompts argument
    enhance_prompts,  \* generate_batch: the enhance_prompts argument
    bpc,              \* where the generate_batch call stands
    all_paths,        \* generate_batch: the all_paths local
    all_metadata,     \* generate_batch: the all_metadata local
    gcalls,           \* the generate_image calls of the batch, in order
    bres              \* what generate_batch gave back to its caller

batchVars == <<prompts, enhance_prompts, bpc, all_paths, all_metadata, gcalls, bres>>

auxVars == <<renderVars, mainVars, batchVars>>

vars == <<listVars, enhVars, genVars, sessVars, auxVars>>

\* ------------------------------------------------------------------------
\* ImageList (src/hawk/app.py:40-99) as functions of the widget state
\* ------------------------------------------------------------------------

Range(n) == 0 .. (n - 1)

ListState(i, c, s) == [images |-> i, cursor |-> c, selected |-> s]

Cur == ListState(images, cursor, selected)

\* ImageList.__init__ and the reactive default of cursor.
ImageListInit == ListState(<<>>, 0, {})

set_images_KeepCursor(st, imgs) == [st EXCEPT !.images = imgs, !.selected = {}]

set_images(st, imgs) == ListState(imgs, 0, {})

set_selected(st, sel) == [st EXCEPT !.selected = sel]

toggle_current_AddOnly(st) ==
    IF st.images # <<>> /\ 0 <= st.cursor /\ st.cursor < Len(st.images)
    THEN [st EXCEPT !.selected = @ \cup {st.cursor}]
    ELSE st

toggle_current(st) ==
    IF st.images # <<>> /\ 0 <= st.cursor /\ st.cursor < Len(st.images)
    THEN IF st.cursor \in st.selected
         THEN [st EXCEPT !.selected = @ \ {st.cursor}]
         ELSE [st EXCEPT !.selected = @ \cup {st.cursor}]
    ELSE st

select_all_SkipLast(st) == [st EXCEPT !.selected = Range(Len(st.images) - 1)]

select_all(st) == [st EXCEPT !.selected = Range(Len(st.images))]

clear_selection(st) == [st EXCEPT !.selected = {}]

move_up(st) ==
    IF st.images # <<>> /\ st.cursor > 0
    THEN [st EXCEPT !.cursor = @ - 1]
    ELSE st

move_down_OffByOne(st) ==
    IF st.images # <<>> /\ st.cursor < Len(st.images)
    THEN [st EXCEPT !.cursor = @ + 1]
    ELSE st

move_down(st) ==
    IF st.images # <<>> /\ st.cursor < Len(st.images) - 1
    THEN [st EXCEPT !.cursor = @ + 1]
    ELSE st

\* ------------------------------------------------------------------------
\* Specification Spec: any caller driving the widget's public methods
\* ------------------------------------------------------------------------

ImageSeqs == {[i \in 1 .. n |-> first + i - 1] : n \in 0 .. MaxLen, first \in FirstFiles}

\* set_selected takes any set of ints; index MaxLen is out of range for
\* every list of the model.
IndexSets == SUBSET (0 .. MaxLen)

Apply(name, a, st) ==
    /\ images' = st.images
    /\ cursor' = st.cursor
    /\ selected' = st.selected
    /\ op' = name
    /\ arg' = a
    /\ pre' = Cur
    /\ UNCHANGED <<enhVars, genVars, sessVars, auxVars>>

ListInit ==
    /\ images = ImageListInit.images
    /\ cursor = ImageListInit.cursor
    /\ selected = ImageListInit.selected
    /\ op = "init"
    /\ arg = <<>>
    /\ pre = ImageListInit

\* No enhancer call is under way.
EnhIdle ==
    /\ prompt = <<>>
    /\ svc = [kind |-> "none", text |-> <<>>]
    /\ probe = FALSE
    /\ useOllama = FALSE
    /\ ecall = "none"
    /\ eres = <<>>

\* No generate_image call is under way.
GenIdle ==
    /\ useLocal = FALSE
    /\ gpc = "idle"
    /\ genhance = FALSE
    /\ num_outputs = 1
    /\ metadata = <<>>
    /\ final_prompt = <<>>
    /\ calls = <<>>
    /\ gres = <<>>

\* No HawkApp is running.
SessIdle ==
    /\ app = "none"
    /\ current_project = "dxp-albs"
    /\ storage = <<>>
    /\ message = [kind |-> "ready"]
    /\ is_working = FALSE
    /\ input = <<>>
    /\ workers = <<>>
    /\ thr = "ui"
    /\ attempts = <<>>
    /\ keys = 0

\* Nothing is rendered, no main() runs and no generate_batch call is
\* under way.
AuxIdle ==
    /\ window = [kind |-> "none"]
    /\ proc = [entry |-> "none"]
    /\ mpc = "idle"
    /\ preloads = 0
    /\ loading = FALSE
    /\ prompts = <<>>
    /\ enhance_prompts = FALSE
    /\ bpc = "idle"
    /\ all_paths = <<>>
    /\ all_metadata = <<>>
    /\ gcalls = <<>>
    /\ bres = <<>>

Init == ListInit /\ EnhIdle /\ GenIdle /\ SessIdle /\ AuxIdle

SetImages == \E imgs \in ImageSeqs : Apply("set_images", imgs, set_images(Cur, imgs))

SetSelected == \E sel \in IndexSets : Apply("set_selected", sel, set_selected(Cur, sel))

ToggleCurrent == Apply("toggle_current", <<>>, toggle_current(Cur))

SelectAll == Apply("select_all", <<>>, select_all(Cur))

ClearSelection == Apply("clear_selection", <<>>, clear_selection(Cur))

MoveUp == Apply("move_up", <<>>, move_up(Cur))

MoveDown == Apply("move_down", <<>>, move_down(Cur))

Next ==
    \/ SetImages
    \/ SetSelected
    \/ ToggleCurrent
    \/ SelectAll
    \/ ClearSelection
    \/ MoveUp
    \/ MoveDown

Spec == Init /\ [][Next]_vars

\* ------------------------------------------------------------------------
\* ollama_client.enhance_prompt (src/hawk/ollama_client.py:46-106)
\* Strings are sequences of one-character strings; Python indices are
\* 0-based, so Python index i is position i + 1 here.
\* ------------------------------------------------------------------------

MAX_PROMPT_CHARS == 250

\* The literal of `if last_break > 150`.
BreakThreshold == 150

\* Characters str.strip() removes.
Whitespace == {" ", "\t", "\n"}

Max2(a, b) == IF a >= b THEN a ELSE b

Min2(a, b) == IF a <= b THEN a ELSE b

\* s[:k] for k >= 0.
Slice(s, k) == SubSeq(s, 1, Min2(k, Len(s)))

\* s.rfind(c): the 0-based index of the last c in s, or -1.
rfind(s, c) ==
    IF \A i \in 1 .. Len(s) : s[i] # c
    THEN -1
    ELSE (CHOOSE i \in 1 .. Len(s) :
              s[i] = c /\ \A j \in (i + 1) .. Len(s) : s[j] # c) - 1

\* s.rstrip(chars): the longest prefix not ending in one of chars.
rstrip(s, chars) ==
    IF \A i \in 1 .. Len(s) : s[i] \in chars
    THEN <<>>
    ELSE SubSeq(s, 1, CHOOSE i \in 1 .. Len(s) :
                          s[i] \notin chars /\ \A j \in (i + 1) .. Len(s) : s[j] \in chars)

\* s.lstrip(chars): the longest suffix not starting with one of chars.
lstrip(s, chars) ==
    IF \A i \in 1 .. Len(s) : s[i] \in chars
    THEN <<>>
    ELSE SubSeq(s, CHOOSE i \in 1 .. Len(s) :
                       s[i] \notin chars /\ \A j \in 1 .. (i - 1) : s[j] \in chars,
                Len(s))

\* s.strip(): leading and trailing whitespace removed.
strip(s) == lstrip(rstrip(s, Whitespace), Whitespace)

\* What the POST to /api/chat can do (lines 70-84): the transport fails, the
\* status is an error, the call times out, the body is not the expected
\* JSON, or the body carries a content text.
ServiceFailures == {"unreachable", "http_error", "timeout", "malformed"}

\* Lines 91-98 without the cut at the limit.
truncate_NoLimit(enhanced) ==
    LET last_break == Max2(rfind(enhanced, ","), rfind(enhanced, " "))
    IN  IF last_break > BreakThreshold
        THEN strip(rstrip(Slice(enhanced, last_break), {","}))
        ELSE strip(enhanced)

\* Lines 91-98: the over-long branch.
truncate(enhanced) ==
    LET truncated == Slice(enhanced, MAX_PROMPT_CHARS)
        last_break == Max2(rfind(truncated, ","), rfind(truncated, " "))
    IN  IF last_break > BreakThreshold
        THEN strip(rstrip(Slice(truncated, last_break), {","}))
        ELSE strip(truncated)

\* Lines 69-102, the body of the try block: raises when the service call
\* does, else returns the prompt (empty content) or the enhanced text.
enhance_try(p, s) ==
    IF s.kind \in ServiceFailures
    THEN [raised |-> TRUE, value |-> <<>>]
    ELSE LET enhanced == strip(s.text)
         IN  IF enhanced = <<>>
             THEN [raised |-> FALSE, value |-> p]
             ELSE IF Len(enhanced) > MAX_PROMPT_CHARS
                  THEN [raised |-> FALSE, value |-> truncate(enhanced)]
                  ELSE [raised |-> FALSE, value |-> enhanced]

\* enhance_prompt without its except clause.
enhance_prompt_NoExcept(p, s) == enhance_try(p, s)

\* enhance_prompt: the try block, and on any exception the original prompt
\* (lines 103-106).
enhance_prompt(p, s) ==
    LET r == enhance_try(p, s)
    IN  IF r.raised THEN [raised |-> FALSE, value |-> p] ELSE r

\* _maybe_enhance_prompt without the is_available() test of line 83.
maybe_enhance_prompt_NoProbe(p, use, avail, s) ==
    IF ~use THEN [raised |-> FALSE, value |-> p, was_enhanced |-> FALSE]
    ELSE LET r == enhance_prompt(p, s)
         IN  [raised |-> r.raised, value |-> r.value,
              was_enhanced |-> (~r.raised /\ r.value # p)]

\* image_generator._maybe_enhance_prompt (image_generator.py:71-87).
\* use is config.USE_OLLAMA, avail the answer of is_available().
maybe_enhance_prompt(p, use, avail, s) ==
    IF ~use THEN [raised |-> FALSE, value |-> p, was_enhanced |-> FALSE]
    ELSE IF ~avail THEN [raised |-> FALSE, value |-> p, was_enhanced |-> FALSE]
    ELSE LET r == enhance_prompt(p, s)
         IN  [raised |-> r.raised, value |-> r.value,
              was_enhanced |-> (~r.raised /\ r.value # p)]

\* ------------------------------------------------------------------------
\* Specification SpecEnhance: the two functions applied to bounded inputs
\* ------------------------------------------------------------------------

\* A text of n characters: letters, except for the separators brk places.
TextOf(n, brk) ==
    [i \in 1 .. n |-> IF (i - 1) \in DOMAIN brk THEN brk[i - 1] ELSE "x"]

NoBreaks == [i \in {} |-> ","]

TextLengths == {0, 1, 2, 3, 250, 251, 260, 300}

\* 0-based indices where a text may carry a comma or a space: the ends,
\* the break threshold and the limit, each with its neighbours.
BreakPositions == {0, 1, 149, 150, 151, 200, 249, 250, 299}

BreakMaps(n) ==
    UNION {[D -> {",", " "}] :
              D \in {E \in SUBSET (BreakPositions \cap Range(n)) :
                        Cardinality(E) <= MaxBreaks}}

ServiceTexts == UNION {{TextOf(n, brk) : brk \in BreakMaps(n)} : n \in TextLengths}

Services ==
    [kind : ServiceFailures, text : {<<>>}] \cup [kind : {"text"}, text : ServiceTexts]

\* A short prompt and one longer than the limit; the service may echo either.
Prompts == {TextOf(2, NoBreaks), TextOf(260, NoBreaks)}

EnhInit ==
    /\ prompt \in Prompts
    /\ svc \in Services
    /\ probe = FALSE
    /\ useOllama = FALSE
    /\ ecall = "none"
    /\ eres = <<>>

InitEnhance == ListInit /\ EnhInit /\ GenIdle /\ SessIdle /\ AuxIdle

CallEnhancePrompt ==
    /\ ecall = "none"
    /\ ecall' = "enhance_prompt"
    /\ eres' = enhance_prompt(prompt, svc)
    /\ UNCHANGED <<prompt, svc, probe, useOllama, listVars, genVars, sessVars, auxVars>>

CallMaybeEnhancePrompt ==
    /\ ecall = "none"
    /\ \E use \in BOOLEAN, avail \in BOOLEAN :
          /\ useOllama' = use
          /\ probe' = avail
          /\ eres' = maybe_enhance_prompt(prompt, use, avail, svc)
    /\ ecall' = "_maybe_enhance_prompt"
    /\ UNCHANGED <<prompt, svc, listVars, genVars, sessVars, auxVars>>

NextEnhance == CallEnhancePrompt \/ CallMaybeEnhancePrompt

SpecEnhance == InitEnhance /\ [][NextEnhance]_vars

\* ------------------------------------------------------------------------
\* image_generator.generate_image (src/hawk/image_generator.py:90-174)
\* ------------------------------------------------------------------------

\* d[k] = v on a Python dict.
Put(d, k, v) == [x \in DOMAIN d \cup {k} |-> IF x = k THEN v ELSE d[x]]

\* Line 116: the backend the configuration names.
BackendName == IF useLocal THEN "local" ELSE "replicate"

BackendFns == {"local_image_gen.generate_image", "replicate_client.generate_image"}

\* The other backend's generate_image (a routing fault used to test C11).
BackendFn_Swapped ==
    IF useLocal THEN "replicate_client.generate_image"
    ELSE "local_image_gen.generate_image"

\* Lines 143-167: the generate_image function the configuration routes to.
BackendFn ==
    IF useLocal THEN "local_image_gen.generate_image"
    ELSE "replicate_client.generate_image"

\* Lines 155, 167: the model identifier recorded for that backend.
BackendModel == IF useLocal THEN "SD_MODEL" ELSE "project.model"

\* The paths a backend hands back when it produced k images.
BackendPaths(k) == [i \in 1 .. k |-> i]

\* How many paths a backend call may hand back. Neither backend module is
\* part of the sources at hand; the backend boundary is described as
\* yielding "one or more output locations", never an empty result, and
\* nothing ties that number to num_outputs.
BackendCounts == 1 .. MaxOutputs

\* What the chat call does during one generate_image call: each failure,
\* no content, blank content, an echo of either prompt, a short rewrite, an
\* over-long rewrite with a comma past the threshold and one with no break.
GenServices ==
    [kind : ServiceFailures, text : {<<>>}] \cup
    [kind : {"text"},
     text : Prompts \cup
            {<<>>, <<" ">>, TextOf(3, NoBreaks),
             TextOf(300, [i \in {200} |-> ","]), TextOf(300, NoBreaks)}]

\* The calls of _maybe_enhance_prompt with the chat call made whatever the
\* probe answered.
EnhanceCalls_Ungated(p, avail) ==
    <<[fn |-> "ollama_client.is_available"],
      [fn |-> "ollama_client.enhance_prompt", prompt |-> p]>>

\* Lines 83-86: the calls _maybe_enhance_prompt makes into ollama_client
\* once USE_OLLAMA has been found set: the probe, and the chat call when
\* the probe answered avail.
EnhanceCalls(p, avail) ==
    <<[fn |-> "ollama_client.is_available"]>> \o
    (IF avail
     THEN <<[fn |-> "ollama_client.enhance_prompt", prompt |-> p]>>
     ELSE <<>>)

\* USE_OLLAMA and USE_LOCAL_IMAGE_GEN are read from the environment once,
\* at import time (config.py:120, 125).
InitGen ==
    /\ ListInit
    /\ prompt = <<>>
    /\ svc = [kind |-> "none", text |-> <<>>]
    /\ probe = FALSE
    /\ useOllama \in BOOLEAN
    /\ ecall = "none"
    /\ eres = <<>>
    /\ useLocal \in BOOLEAN
    /\ gpc = "idle"
    /\ genhance = FALSE
    /\ num_outputs = 1
    /\ metadata = <<>>
    /\ final_prompt = <<>>
    /\ calls = <<>>
    /\ gres = <<>>
    /\ SessIdle
    /\ AuxIdle

\* Lines 116-127: entry, the metadata dict, final_prompt = prompt.
GenCall ==
    /\ gpc = "idle"
    /\ \E p \in Prompts, e \in BOOLEAN, n \in 1 .. MaxOutputs :
          /\ prompt' = p
          /\ genhance' = e
          /\ num_outputs' = n
          /\ metadata' = [original_prompt |-> p, enhanced |-> FALSE,
                          backend |-> BackendName]
          /\ final_prompt' = p
    /\ calls' = <<>>
    /\ gpc' = "enhance"
    /\ UNCHANGED <<svc, probe, useOllama, ecall, eres, useLocal, gres, listVars, sessVars, auxVars>>

\* Line 128 false: no enhancement is attempted.
GenSkipEnhance ==
    /\ gpc = "enhance"
    /\ ~(genhance /\ useOllama)
    /\ gpc' = "backend"
    /\ UNCHANGED <<enhVars, useLocal, genhance, num_outputs, metadata,
                   final_prompt, calls, gres, listVars, sessVars, auxVars>>

\* Lines 128-139: _maybe_enhance_prompt, with the probe and, when the probe
\* says available, the chat call. An exception out of it would end
\* generate_image before the backend is reached.
GenMaybeEnhance ==
    /\ gpc = "enhance"
    /\ genhance /\ useOllama
    /\ \E avail \in BOOLEAN, s \in GenServices :
          LET r == maybe_enhance_prompt(prompt, useOllama, avail, s)
          IN  /\ probe' = avail
              /\ svc' = s
              /\ ecall' = "_maybe_enhance_prompt"
              /\ eres' = r
              /\ calls' = calls \o EnhanceCalls(prompt, avail)
              /\ IF r.raised
                 THEN /\ gpc' = "raised"
                      /\ gres' = [raised |-> TRUE]
                      /\ UNCHANGED <<final_prompt, metadata>>
                 ELSE /\ gpc' = "backend"
                      /\ final_prompt' = r.value
                      /\ metadata' = Put(Put(metadata, "enhanced", r.was_enhanced),
                                         "final_prompt", r.value)
                      /\ UNCHANGED gres
    /\ UNCHANGED <<prompt, useOllama, useLocal, genhance, num_outputs, listVars, sessVars, auxVars>>

\* Lines 142-170: the configured backend returns paths; they and the
\* metadata, with the backend's model, go back to the caller.
GenBackendReturns ==
    /\ gpc = "backend"
    /\ \E k \in BackendCounts :
          /\ calls' = Append(calls, [fn |-> BackendFn, prompt |-> final_prompt,
                                     num_outputs |-> num_outputs,
                                     ret |-> BackendPaths(k)])
          /\ metadata' = Put(metadata, "model", BackendModel)
          /\ gres' = [raised |-> FALSE, paths |-> BackendPaths(k),
                      metadata |-> metadata']
    /\ gpc' = "returned"
    /\ UNCHANGED <<enhVars, useLocal, genhance, num_outputs, final_prompt, listVars, sessVars, auxVars>>

\* Lines 172-174: the configured backend raises; logged and re-raised.
GenBackendRaises ==
    /\ gpc = "backend"
    /\ calls' = Append(calls, [fn |-> BackendFn, prompt |-> final_prompt,
                               num_outputs |-> num_outputs])
    /\ gres' = [raised |-> TRUE]
    /\ gpc' = "raised"
    /\ UNCHANGED <<enhVars, useLocal, genhance, num_outputs, metadata,
                   final_prompt, listVars, sessVars, auxVars>>

NextGen ==
    \/ GenCall
    \/ GenSkipEnhance
    \/ GenMaybeEnhance
    \/ GenBackendReturns
    \/ GenBackendRaises

SpecGen == InitGen /\ [][NextGen]_vars

\* ------------------------------------------------------------------------
\* HawkApp session (src/hawk/app.py:250-453)
\*
\* Handlers of the interactive thread (key bindings, on_mount, the
\* watcher of current_project, callbacks handed to call_from_thread) run
\* one at a time and each is one step. A method decorated with
\* @work(exclusive=True, thread=True) runs on a thread of its own; it is
\* cut into steps at every read of session state and at every blocking
\* call (call_from_thread, the backend, create_slideshow).
\*
\* config.PROJECTS has no "dxp-albs" entry, the slug current_project is
\* constructed with, so a session constructed that way ends in on_mount.
\* To cover the handlers of a running session the specification also
\* starts sessions on the other two slugs the app assigns.
\* ------------------------------------------------------------------------

\* Keys of config.PROJECTS.
PROJECTS == {"wedding-vision", "latin-bible", "dxp-labs"}

\* The slugs HawkApp assigns to current_project.
AppSlugs == {"wedding-vision", "latin-bible", "dxp-albs"}

\* Most files one project's images directory holds.
MaxFiles == 2

\* Most keys the operator presses in one session.
MaxKeys == 4

\* How many files a project's images directory holds at start.
InitialCounts == {1}

\* Threads the model lets run at once.
Slots == {1, 2}

\* What the operator types into the prompt input.
InputValues == {<<>>, <<"c", "a", "t">>}

\* str(e) of the exceptions a backend or create_slideshow raises.
Errors == {[i \in 1 .. n |-> "x"] : n \in {50, 51}}

\* The literal of str(e)[:50].
ErrorSummaryChars == 50

ErrorPrefix == <<"E", "r", "r", "o", "r", ":", " ">>

\* str(e)[:50] without the slice (a fault used to test C16).
error_status_NoSlice(e) == [kind |-> "error", text |-> ErrorPrefix \o e]

\* f"Error: {str(e)[:50]}"
error_status(e) == [kind |-> "error", text |-> ErrorPrefix \o Slice(e, ErrorSummaryChars)]

\* sorted(S)
Ascending(S) ==
    CHOOSE s \in [1 .. Cardinality(S) -> S] :
        \A i, j \in 1 .. Cardinality(S) : i < j => s[i] < s[j]

\* sorted(S) where sorted(S, reverse=True) is written (a fault used to
\* test C18).
Descending_NotReversed(S) == Ascending(S)

\* sorted(S, reverse=True)
Descending(S) ==
    CHOOSE s \in [1 .. Cardinality(S) -> S] :
        \A i, j \in 1 .. Cardinality(S) : i < j => s[i] > s[j]

MaxOf(S) == IF S = {} THEN 0 ELSE CHOOSE m \in S : \A x \in S : x <= m

\* replicate_client.get_project_images(project): the module is not part of
\* the sources at hand; a listing is the directory's files in a stable
\* order.
get_project_images(store, proj) == Ascending(store[proj])

\* The files a backend call writes when it produces k images: new names,
\* later than every name in the directory.
NewFiles(S, k) == (MaxOf(S) + 1) .. (MaxOf(S) + k)

\* The thread a callable handed to call_from_thread runs on, were it
\* called directly (a fault used to test C15).
call_from_thread_Direct == "worker"

\* App.call_from_thread(callable, ...) runs the callable on the
\* interactive thread and blocks the calling thread until it is done.
call_from_thread == "ui"

\* The success path of action_generate with the count status posted first
\* (a fault used to test C17).
GenerateOnSuccess_StatusFirst == <<"cb_generated", "cb_refresh", "cb_clear">>

\* Lines 419-421: the three callbacks of the success path, in order.
GenerateOnSuccess == <<"cb_refresh", "cb_generated", "cb_clear">>

\* The callback that follows c on the success path ("done" after the last).
AfterCallback(c) ==
    LET i == CHOOSE k \in 1 .. Len(GenerateOnSuccess) : GenerateOnSuccess[k] = c
    IN  IF i < Len(GenerateOnSuccess) THEN GenerateOnSuccess[i + 1] ELSE "done"

\* A worker's reference to ImageList._selected: while alias holds it is the
\* set object the widget still uses, afterwards the object as it was when
\* the widget replaced it.
NoSel == [alias |-> FALSE, val |-> {}]

IdleWorker ==
    [kind |-> "none", pc |-> "idle", cancelled |-> FALSE, by |-> "none",
     proj |-> "none", n |-> 0, err |-> <<>>, sel |-> NoSel, imgs |-> <<>>,
     idx |-> <<>>, paths |-> <<>>, refreshed |-> FALSE]

Active(w) == workers[w].kind # "none"

\* What a worker's `selected` local holds now.
Deref(w) == IF workers[w].sel.alias THEN selected ELSE workers[w].sel.val

\* ImageList replaces _selected by a new set object (set_images,
\* select_all, clear_selection): a worker that holds the old object keeps
\* it as it was.
Detached(ws) ==
    [w \in Slots |->
        IF ws[w].sel.alias
        THEN [ws[w] EXCEPT !.sel = [alias |-> FALSE, val |-> selected]]
        ELSE ws[w]]

\* The worker's thread has returned.
Finished(w) == [workers EXCEPT ![w] = IdleWorker]

\* What a step leaves alone outside the session, and the thread it ran on.
OnThread(t) ==
    /\ thr' = t
    /\ UNCHANGED <<op, arg, pre, enhVars, genVars, auxVars>>

\* A step of the framework or of a worker: no key is pressed.
NoKey(t) ==
    /\ OnThread(t)
    /\ UNCHANGED keys

\* The operator presses a key (or edits the prompt input); its handler
\* runs on the interactive thread.
Key ==
    /\ keys < MaxKeys
    /\ keys' = keys + 1
    /\ OnThread("ui")

\* HawkApp.set_status(message, working=False)
set_status(m, working) ==
    /\ message' = m
    /\ is_working' = working

\* The ImageList after st replaces it.
ShowList(st) ==
    /\ images' = st.images
    /\ cursor' = st.cursor
    /\ selected' = st.selected

\* HawkApp.refresh_images() for the slug proj over the directories store.
refresh_images(store, proj) ==
    LET imgs == get_project_images(store, proj)
    IN  /\ ShowList(set_images(Cur, imgs))
        /\ set_status([kind |-> "listing", project |-> proj, count |-> Len(imgs)], FALSE)

\* PROJECTS[slug] raised KeyError in a handler: the app ends.
Crash ==
    /\ app' = "crashed"
    /\ UNCHANGED <<images, cursor, selected, message, is_working, workers>>

InitSession ==
    /\ ListInit
    /\ EnhIdle
    /\ GenIdle
    /\ AuxIdle
    /\ app = "constructed"
    /\ current_project \in AppSlugs
    /\ storage \in [PROJECTS \cap AppSlugs -> {1 .. n : n \in InitialCounts}]
    /\ message = [kind |-> "ready"]
    /\ is_working = FALSE
    /\ input = <<>>
    /\ workers = [w \in Slots |-> IdleWorker]
    /\ thr = "ui"
    /\ attempts = <<>>
    /\ keys = 0

\* Lines 311-316.
on_mount ==
    /\ app = "constructed"
    /\ IF current_project \in PROJECTS
       THEN /\ app' = "running"
            /\ refresh_images(storage, current_project)
            /\ UNCHANGED workers
       ELSE Crash
    /\ attempts' = <<>>
    /\ UNCHANGED <<current_project, storage, input>>
    /\ NoKey("ui")

\* Lines 334-338 and 347-354: the key handler assigns the slug; the
\* reactive attribute calls watch_current_project only when the value
\* changed.
select_project(slug) ==
    /\ app = "running"
    /\ current_project' = slug
    /\ IF slug = current_project
       THEN UNCHANGED <<app, images, cursor, selected, message, is_working, workers>>
       ELSE IF slug \in PROJECTS
            THEN /\ refresh_images(storage, slug)
                 /\ workers' = Detached(workers)
                 /\ UNCHANGED app
            ELSE Crash
    /\ attempts' = <<>>
    /\ UNCHANGED <<storage, input>>
    /\ Key

action_select_project_1 == select_project("wedding-vision")

action_select_project_2 == select_project("latin-bible")

action_select_project_3 == select_project("dxp-albs")

\* A key handler that calls one ImageList method: st is the list it leaves,
\* ws the workers' locals afterwards.
ListKey(st, ws) ==
    /\ app = "running"
    /\ ShowList(st)
    /\ workers' = ws
    /\ attempts' = <<>>
    /\ UNCHANGED <<app, current_project, storage, input>>
    /\ Key

\* Lines 357-358.
action_cursor_up ==
    /\ ListKey(move_up(Cur), workers)
    /\ UNCHANGED <<message, is_working>>

\* Lines 360-361.
action_cursor_down ==
    /\ ListKey(move_down(Cur), workers)
    /\ UNCHANGED <<message, is_working>>

\* Lines 364-368: toggle_current changes the set object in place.
action_toggle_select ==
    /\ ListKey(toggle_current(Cur), workers)
    /\ set_status([kind |-> "n_selected",
                   count |-> Cardinality(toggle_current(Cur).selected)], FALSE)

\* Lines 370-374.
action_select_all ==
    /\ ListKey(select_all(Cur), Detached(workers))
    /\ set_status([kind |-> "selected_all",
                   count |-> Cardinality(select_all(Cur).selected)], FALSE)

\* Lines 376-379.
action_clear_selection ==
    /\ ListKey(clear_selection(Cur), Detached(workers))
    /\ set_status([kind |-> "cleared"], FALSE)

\* Lines 390-403. delete_image (replicate_client, not part of the sources
\* at hand) answers whether it removed the file; it cannot remove a file
\* that is no longer there and may fail on one that is.
action_delete_selected ==
    /\ app = "running"
    /\ IF selected = {}
       THEN /\ set_status([kind |-> "none_selected"], FALSE)
            /\ attempts' = <<>>
            /\ UNCHANGED <<images, cursor, selected, storage, workers>>
       ELSE LET guarded == {i \in selected : i < Len(images)}
                order == Descending(guarded)
            IN  \E ok \in SUBSET {i \in guarded :
                                    images[i + 1] \in storage[current_project]} :
                  LET store == [storage EXCEPT ![current_project] =
                                   @ \ {images[i + 1] : i \in ok}]
                  IN  /\ attempts' = [k \in 1 .. Len(order) |-> images[order[k] + 1]]
                      /\ storage' = store
                      /\ ShowList(set_images(Cur, get_project_images(store, current_project)))
                      /\ set_status([kind |-> "deleted", count |-> Cardinality(ok)], FALSE)
                      /\ workers' = Detached(workers)
    /\ UNCHANGED <<app, current_project, input>>
    /\ Key

\* A key handler that hands a path to the external `open` command and
\* posts a status; subprocess.run returns when the command has ended.
OpenKey(m) ==
    /\ app = "running"
    /\ set_status(m, FALSE)
    /\ attempts' = <<>>
    /\ UNCHANGED <<app, current_project, storage, input, images, cursor,
                   selected, workers>>
    /\ Key

\* Lines 381-388: nothing happens on an empty list.
action_open_image ==
    IF images # <<>> /\ 0 <= cursor /\ cursor < Len(images)
    THEN OpenKey([kind |-> "opened", name |-> images[cursor + 1]])
    ELSE /\ app = "running"
         /\ attempts' = <<>>
         /\ UNCHANGED <<app, current_project, storage, input, images, cursor,
                        selected, workers, message, is_working>>
         /\ Key

\* Lines 444-448.
action_browse == OpenKey([kind |-> "opened_dir", project |-> current_project])

\* The operator edits the prompt input.
edit_prompt ==
    /\ app = "running"
    /\ \E v \in InputValues : v # input /\ input' = v
    /\ attempts' = <<>>
    /\ UNCHANGED <<app, current_project, storage, message, is_working,
                   images, cursor, selected, workers>>
    /\ Key

\* @work(exclusive=True, thread=True): calling the method cancels every
\* worker of the app's default group, which both decorated methods share,
\* and starts a thread for the new one. A cancelled thread worker is only
\* marked; its thread runs on.
start_worker(kind) ==
    /\ app = "running"
    /\ \E free \in Slots : ~Active(free)
    /\ LET w == CHOOSE x \in Slots :
                    ~Active(x) /\ \A y \in Slots : ~Active(y) => x <= y
       IN  workers' =
             [x \in Slots |->
                 IF x = w
                 THEN [IdleWorker EXCEPT !.kind = kind, !.pc = "start"]
                 ELSE IF Active(x) /\ ~workers[x].cancelled
                      THEN [workers[x] EXCEPT !.cancelled = TRUE, !.by = kind]
                      ELSE workers[x]]
    /\ attempts' = <<>>
    /\ UNCHANGED <<app, current_project, storage, message, is_working, input,
                   images, cursor, selected>>
    /\ Key

\* Binding "g" (line 263).
action_generate == start_worker("generate")

\* Lines 450-453: Enter in the prompt input.
on_input_submitted == start_worker("generate")

\* Binding "v" (line 265).
action_create_video == start_worker("video")

\* A step of worker w on its own thread: it writes nothing but its locals
\* and, through the backend, the images directory.
WorkerStep(w, kind, pc, next) ==
    /\ app = "running"
    /\ workers[w].kind = kind
    /\ workers[w].pc = pc
    /\ workers' = [workers EXCEPT ![w] = next]
    /\ attempts' = <<>>
    /\ UNCHANGED <<app, current_project, message, is_working, input,
                   images, cursor, selected>>
    /\ NoKey("worker")

\* Lines 408-415: the prompt is read and stripped; with a prompt, the
\* display name of the active project is read for the status.
generate_start(w) ==
    /\ WorkerStep(w, "generate", "start",
          IF strip(input) = <<>>
          THEN [workers[w] EXCEPT !.pc = "cb_noprompt"]
          ELSE [workers[w] EXCEPT !.pc = "cb_working", !.proj = current_project])
    /\ UNCHANGED storage

\* Line 418: self.project is read and the backend is called.
generate_call_backend(w) ==
    /\ WorkerStep(w, "generate", "call",
          [workers[w] EXCEPT !.pc = "backend", !.proj = current_project])
    /\ UNCHANGED storage

\* Line 418: the backend has written its images and returns their paths.
generate_backend_returns(w) ==
    \E k \in BackendCounts :
       /\ workers[w].pc = "backend"
       /\ MaxOf(storage[workers[w].proj]) + k <= MaxFiles
       /\ WorkerStep(w, "generate", "backend",
             [workers[w] EXCEPT !.pc = GenerateOnSuccess[1], !.n = k])
       /\ storage' = [storage EXCEPT ![workers[w].proj] =
                         @ \cup NewFiles(@, k)]

\* Line 422: the backend raises.
generate_backend_raises(w) ==
    /\ \E e \in Errors :
          WorkerStep(w, "generate", "backend",
             [workers[w] EXCEPT !.pc = "cb_error", !.err = e])
    /\ UNCHANGED storage

\* Lines 427-435: the worker takes the widget's set and list objects and
\* tests the set.
video_start(w) ==
    /\ WorkerStep(w, "video", "start",
          IF selected = {}
          THEN [workers[w] EXCEPT !.pc = "cb_select_first"]
          ELSE [workers[w] EXCEPT !.pc = "cb_creating",
                                  !.sel = [alias |-> TRUE, val |-> {}],
                                  !.imgs = images])
    /\ UNCHANGED storage

\* Lines 438-439: the paths are built from the set as it is now and
\* create_slideshow is called; an index past the list raises IndexError.
video_call_slideshow(w) ==
    /\ LET s == Deref(w)
           order == Ascending(s)
           imgs == workers[w].imgs
       IN  WorkerStep(w, "video", "build",
              IF \E i \in s : i >= Len(imgs)
              THEN [workers[w] EXCEPT !.pc = "cb_error", !.sel = NoSel,
                                      !.err = [i \in 1 .. 23 |-> "x"]]
              ELSE [workers[w] EXCEPT !.pc = "slideshow", !.sel = NoSel,
                                      !.proj = current_project,
                                      !.idx = order,
                                      !.paths = [k \in 1 .. Len(order) |->
                                                    imgs[order[k] + 1]]])
    /\ UNCHANGED storage

\* Line 440: create_slideshow returns the output path.
video_slideshow_returns(w) ==
    /\ WorkerStep(w, "video", "slideshow",
          [workers[w] EXCEPT !.pc = "cb_saved", !.imgs = <<>>, !.idx = <<>>,
                             !.paths = <<>>])
    /\ UNCHANGED storage

\* Line 441: create_slideshow raises.
video_slideshow_raises(w) ==
    /\ \E e \in Errors :
          WorkerStep(w, "video", "slideshow",
             [workers[w] EXCEPT !.pc = "cb_error", !.err = e, !.imgs = <<>>,
                                !.idx = <<>>, !.paths = <<>>])
    /\ UNCHANGED storage

\* The callable worker w handed to call_from_thread at pc runs.
Callback(w, kind, pc) ==
    /\ app = "running"
    /\ workers[w].kind = kind
    /\ workers[w].pc = pc
    /\ attempts' = <<>>
    /\ UNCHANGED <<app, current_project, storage>>
    /\ NoKey(call_from_thread)

\* Line 412.
cb_noprompt(w) ==
    /\ Callback(w, "generate", "cb_noprompt")
    /\ set_status([kind |-> "enter_prompt"], FALSE)
    /\ workers' = Finished(w)
    /\ UNCHANGED <<images, cursor, selected, input>>

\* Line 415.
cb_working(w) ==
    /\ Callback(w, "generate", "cb_working")
    /\ set_status([kind |-> "generating", project |-> workers[w].proj], TRUE)
    /\ workers' = [workers EXCEPT ![w].pc = "call"]
    /\ UNCHANGED <<images, cursor, selected, input>>

\* Line 419.
cb_refresh(w) ==
    /\ Callback(w, "generate", "cb_refresh")
    /\ refresh_images(storage, current_project)
    /\ workers' = [Detached(workers) EXCEPT
                      ![w].pc = AfterCallback("cb_refresh"),
                      ![w].refreshed = TRUE]
    /\ UNCHANGED input

\* Line 420.
cb_generated(w) ==
    /\ Callback(w, "generate", "cb_generated")
    /\ set_status([kind |-> "generated", count |-> workers[w].n], FALSE)
    /\ workers' = [workers EXCEPT ![w].pc = AfterCallback("cb_generated")]
    /\ UNCHANGED <<images, cursor, selected, input>>

\* Line 421.
cb_clear(w) ==
    /\ Callback(w, "generate", "cb_clear")
    /\ input' = <<>>
    /\ workers' = [workers EXCEPT ![w].pc = AfterCallback("cb_clear")]
    /\ UNCHANGED <<images, cursor, selected, message, is_working>>

\* The thread of action_generate returns after its last callback.
generate_done(w) ==
    /\ WorkerStep(w, "generate", "done", IdleWorker)
    /\ UNCHANGED storage

\* Line 423.
cb_generate_error(w) ==
    /\ Callback(w, "generate", "cb_error")
    /\ set_status(error_status(workers[w].err), FALSE)
    /\ workers' = Finished(w)
    /\ UNCHANGED <<images, cursor, selected, input>>

\* Line 432.
cb_select_first(w) ==
    /\ Callback(w, "video", "cb_select_first")
    /\ set_status([kind |-> "select_first"], FALSE)
    /\ workers' = Finished(w)
    /\ UNCHANGED <<images, cursor, selected, input>>

\* Line 435.
cb_creating(w) ==
    /\ Callback(w, "video", "cb_creating")
    /\ set_status([kind |-> "creating"], TRUE)
    /\ workers' = [workers EXCEPT ![w].pc = "build"]
    /\ UNCHANGED <<images, cursor, selected, input>>

\* Line 440.
cb_saved(w) ==
    /\ Callback(w, "video", "cb_saved")
    /\ set_status([kind |-> "saved"], FALSE)
    /\ workers' = Finished(w)
    /\ UNCHANGED <<images, cursor, selected, input>>

\* Line 442.
cb_video_error(w) ==
    /\ Callback(w, "video", "cb_error")
    /\ set_status(error_status(workers[w].err), FALSE)
    /\ workers' = Finished(w)
    /\ UNCHANGED <<images, cursor, selected, input>>

NextSession ==
    \/ on_mount
    \/ action_select_project_1
    \/ action_select_project_2
    \/ action_select_project_3
    \/ action_cursor_up
    \/ action_cursor_down
    \/ action_toggle_select
    \/ action_select_all
    \/ action_clear_selection
    \/ action_delete_selected
    \/ action_open_image
    \/ action_browse
    \/ edit_prompt
    \/ action_generate
    \/ on_input_submitted
    \/ action_create_video
    \/ \E w \in Slots :
          \/ generate_start(w)
          \/ cb_noprompt(w)
          \/ cb_working(w)
          \/ generate_call_backend(w)
          \/ generate_backend_returns(w)
          \/ generate_backend_raises(w)
          \/ cb_refresh(w)
          \/ cb_generated(w)
          \/ cb_clear(w)
          \/ generate_done(w)
          \/ cb_generate_error(w)
          \/ video_start(w)
          \/ cb_select_first(w)
          \/ cb_creating(w)
          \/ video_call_slideshow(w)
          \/ video_slideshow_returns(w)
          \/ video_slideshow_raises(w)
          \/ cb_saved(w)
          \/ cb_video_error(w)

SpecSession == InitSession /\ [][NextSession]_vars

\* A session in which the operator only browses, selects and deletes, over
\* images directories of up to MaxLen files.
InitBrowse ==
    /\ ListInit
    /\ EnhIdle
    /\ GenIdle
    /\ AuxIdle
    /\ app = "constructed"
    /\ current_project \in AppSlugs
    /\ storage \in [PROJECTS \cap AppSlugs -> {1 .. n : n \in 0 .. MaxLen}]
    /\ message = [kind |-> "ready"]
    /\ is_working = FALSE
    /\ input = <<>>
    /\ workers = [w \in Slots |-> IdleWorker]
    /\ thr = "ui"
    /\ attempts = <<>>
    /\ keys = 0

NextBrowse ==
    \/ on_mount
    \/ action_select_project_1
    \/ action_select_project_2
    \/ action_select_project_3
    \/ action_cursor_up
    \/ action_cursor_down
    \/ action_toggle_select
    \/ action_select_all
    \/ action_clear_selection
    \/ action_delete_selected
    \/ action_open_image
    \/ action_browse

SpecBrowse == InitBrowse /\ [][NextBrowse]_vars

\* ------------------------------------------------------------------------
\* Properties of the ImageList (checked under Spec)
\* ------------------------------------------------------------------------

\* C1: after any sequence of ImageList operations from the empty initial
\* list the cursor is 0 on an empty list and within [0, len-1] otherwise;
\* move_up and move_down change nothing on an empty list and at their
\* boundary (cursor 0, cursor len-1).
C1_CursorInRange ==
    /\ images = <<>> => cursor = 0
    /\ images # <<>> => 0 <= cursor /\ cursor < Len(images)
    /\ (op = "move_up" /\ (pre.images = <<>> \/ pre.cursor = 0)) => Cur = pre
    /\ (op = "move_down" /\ (pre.images = <<>> \/ pre.cursor = Len(pre.images) - 1))
           => Cur = pre
    /\ (op = "move_up" /\ pre.images # <<>> /\ pre.cursor > 0)
           => cursor = pre.cursor - 1
    /\ (op = "move_down" /\ pre.images # <<>> /\ pre.cursor < Len(pre.images) - 1)
           => cursor = pre.cursor + 1

\* C1 witness: move_down was called with the cursor on the last item of a
\* list of several items and left it there.
C1_Witness ==
    /\ op = "move_down"
    /\ Len(images) >= 2
    /\ pre.cursor = Len(images) - 1
    /\ cursor = Len(images) - 1

\* C2: every selected index is in range for the current item sequence after
\* any sequence of the public operations, set_selected included.
C2_SelectedInRange == selected \subseteq Range(Len(images))

\* C3: set_images(new_items) leaves cursor = 0, selected = {} and
\* items = new_items whatever the prior state and the new sequence.
C3_SetImagesResets ==
    op = "set_images" => cursor = 0 /\ selected = {} /\ images = arg

\* C3 witness: set_images was given a shorter, non-empty list for which the
\* old non-zero cursor and the old non-empty selection were still in range.
C3_Witness ==
    /\ op = "set_images"
    /\ Len(images) < Len(pre.images)
    /\ pre.cursor > 0
    /\ pre.cursor < Len(images)
    /\ pre.selected # {}
    /\ pre.selected \subseteq Range(Len(images))
    /\ cursor = 0
    /\ selected = {}

\* C4: one toggle_current flips the membership of the cursor index and of
\* no other index, changes nothing on an empty list, and a second
\* consecutive toggle_current restores the selection the first one found.
C4_ToggleFlipsCursorOnly ==
    op = "toggle_current" =>
        /\ images = pre.images
        /\ cursor = pre.cursor
        /\ pre.images = <<>> => selected = pre.selected
        /\ pre.images # <<>> =>
              /\ (cursor \in selected) # (cursor \in pre.selected)
              /\ selected \ {cursor} = pre.selected \ {cursor}

C4_ToggleTwiceRestores ==
    /\ []C4_ToggleFlipsCursorOnly
    /\ [][(op = "toggle_current" /\ op' = "toggle_current")
             => selected' = pre.selected]_vars

\* C4 witness: a toggle_current removed the cursor index from a selection
\* that holds other indices too.
C4_Witness ==
    /\ op = "toggle_current"
    /\ cursor \in pre.selected
    /\ cursor \notin selected
    /\ selected # {}
    /\ cursor > 0

\* C5: select_all sets selected to exactly {0..len-1} and leaves cursor and
\* items alone; clear_selection empties the selection and leaves cursor and
\* items alone; select_all followed by clear_selection leaves it empty.
C5_SelectAllExact ==
    /\ op = "select_all" =>
          /\ selected = Range(Len(images))
          /\ cursor = pre.cursor
          /\ images = pre.images
    /\ op = "clear_selection" =>
          /\ selected = {}
          /\ cursor = pre.cursor
          /\ images = pre.images

C5_SelectAllThenClear ==
    /\ []C5_SelectAllExact
    /\ [][(op = "select_all" /\ op' = "clear_selection") => selected' = {}]_vars

\* C5 witness: select_all ran on a list of several items whose selection
\* was not already the full index set, with the cursor off the first item.
C5_Witness ==
    /\ op = "select_all"
    /\ Len(images) >= 2
    /\ cursor > 0
    /\ pre.selected # Range(Len(images))
    /\ selected = Range(Len(images))

\* ------------------------------------------------------------------------
\* Properties of enhance_prompt (checked under SpecEnhance)
\* ------------------------------------------------------------------------

Separators == {",", " "}

\* The service's content after the .strip() of line 84.
EnhancedText == strip(svc.text)

\* r is e cut somewhere at or before 0-based index i, and everything cut
\* away before i is a comma or a space: r ends exactly before the
\* separator at i, trailing separators stripped.
EndsBefore(r, e, i) ==
    /\ Len(r) <= i
    /\ r = SubSeq(e, 1, Len(r))
    /\ \A k \in (Len(r) + 1) .. i : e[k] \in Separators

\* C6 as stated: for every non-empty text returned by the enhancement
\* service the string enhance_prompt returns is at most MAX_PROMPT_CHARS
\* characters long.
C6_NonEmptyTextWithinBudget ==
    (ecall = "enhance_prompt" /\ svc.kind = "text" /\ svc.text # <<>>)
        => Len(eres.value) <= MAX_PROMPT_CHARS

\* C6 amended: for every text returned by the enhancement service that
\* holds a non-whitespace character, the string enhance_prompt returns is
\* at most MAX_PROMPT_CHARS characters long, on either truncation branch.
C6_NonBlankTextWithinBudget ==
    (/\ ecall = "enhance_prompt"
     /\ svc.kind = "text"
     /\ \E i \in 1 .. Len(svc.text) : svc.text[i] \notin Whitespace)
        => ~eres.raised /\ Len(eres.value) <= MAX_PROMPT_CHARS

\* C6 witness: an over-long text with no break past the threshold was cut
\* at the raw boundary.
C6_Witness ==
    /\ ecall = "enhance_prompt"
    /\ svc.kind = "text"
    /\ Len(EnhancedText) > MAX_PROMPT_CHARS
    /\ rfind(Slice(EnhancedText, MAX_PROMPT_CHARS), ",") <= BreakThreshold
    /\ rfind(Slice(EnhancedText, MAX_PROMPT_CHARS), " ") <= BreakThreshold
    /\ Len(eres.value) = MAX_PROMPT_CHARS

\* C7: for every enhanced text longer than the budget, if a comma exists at
\* an index in [150, 250), the returned string ends exactly before that
\* comma (the last such comma), with the trailing comma/space stripped.
C7_EndsBeforeComma ==
    (ecall = "enhance_prompt" /\ svc.kind = "text"
        /\ Len(EnhancedText) > MAX_PROMPT_CHARS)
        => \A i \in BreakThreshold .. (MAX_PROMPT_CHARS - 1) :
               (/\ EnhancedText[i + 1] = ","
                /\ \A j \in (i + 1) .. (MAX_PROMPT_CHARS - 1) : EnhancedText[j + 1] # ",")
                   => EndsBefore(eres.value, EnhancedText, i)

\* C8: for every enhanced text longer than the budget with a comma or space
\* at some index in [150, 250), the returned string is cut at such a break
\* point, separator stripped, and not at the raw boundary.
C8_CutsAtBreakInTail ==
    (ecall = "enhance_prompt" /\ svc.kind = "text"
        /\ Len(EnhancedText) > MAX_PROMPT_CHARS
        /\ \E i \in BreakThreshold .. (MAX_PROMPT_CHARS - 1) :
               EnhancedText[i + 1] \in Separators)
        => \E b \in BreakThreshold .. (MAX_PROMPT_CHARS - 1) :
               /\ EnhancedText[b + 1] \in Separators
               /\ EndsBefore(eres.value, EnhancedText, b)

\* C9: when the service call raises, or returns an empty or whitespace-only
\* text, enhance_prompt returns the original prompt without raising and
\* _maybe_enhance_prompt returns it with was_enhanced = false.
C9_FallsBackToPrompt ==
    (\/ svc.kind \in ServiceFailures
     \/ (svc.kind = "text" /\ \A i \in 1 .. Len(svc.text) : svc.text[i] \in Whitespace))
        => /\ ecall = "enhance_prompt"
                => eres = [raised |-> FALSE, value |-> prompt]
           /\ ecall = "_maybe_enhance_prompt"
                => eres = [raised |-> FALSE, value |-> prompt, was_enhanced |-> FALSE]

\* C9 witness: enhancement was enabled, the probe answered available, the
\* chat call timed out, and _maybe_enhance_prompt gave back the prompt.
C9_Witness ==
    /\ ecall = "_maybe_enhance_prompt"
    /\ useOllama
    /\ probe
    /\ svc.kind = "timeout"
    /\ eres.value = prompt
    /\ ~eres.was_enhanced
    /\ ~eres.raised

\* ------------------------------------------------------------------------
\* Properties of generate_image (checked under SpecGen)
\* ------------------------------------------------------------------------

\* The backend calls made so far by the current generate_image call.
BackendCalls == {i \in 1 .. Len(calls) : calls[i].fn \in BackendFns}

\* The enhancement path did not produce a rewritten prompt: disabled, probe
\* unavailable, service failure, or no content or blank content.
EnhancementDidNotSucceed ==
    \/ ~(genhance /\ useOllama)
    \/ ~probe
    \/ svc.kind \in ServiceFailures
    \/ \A i \in 1 .. Len(svc.text) : svc.text[i] \in Whitespace

\* C10: whatever the enhancement path did, generate_image goes on to the
\* backend and calls the configured backend exactly once; it ends in an
\* exception only when that backend raised; and when enhancement did not
\* succeed the backend is given the original prompt and the metadata says
\* enhanced = false.
C10_EnhancementNeverAborts ==
    /\ gpc = "backend" => BackendCalls = {}
    /\ gpc \in {"returned", "raised"} =>
          /\ Cardinality(BackendCalls) = 1
          /\ calls[Len(calls)].fn = BackendFn
          /\ EnhancementDidNotSucceed =>
                /\ calls[Len(calls)].prompt = prompt
                /\ metadata.enhanced = FALSE

\* C10 witness: enhancement was on, the probe said available, the chat call
\* failed, and the backend was still called, with the original prompt.
C10_Witness ==
    /\ gpc = "returned"
    /\ genhance /\ useOllama /\ probe
    /\ svc.kind = "unreachable"
    /\ Len(calls) = 3
    /\ calls[3].fn = BackendFn
    /\ calls[3].prompt = prompt
    /\ gres.metadata.enhanced = FALSE

\* C11: a generate_image call that returns has invoked exactly one backend,
\* the configured one (the local one exactly when USE_LOCAL_IMAGE_GEN is
\* set, else the remote one) and never the other; it returns exactly the
\* paths that backend returned; and the metadata names the configured
\* backend and that backend's model identifier.
C11_ConfiguredBackendOnly ==
    gpc = "returned" =>
        /\ Cardinality(BackendCalls) = 1
        /\ \A i \in BackendCalls :
              /\ useLocal => calls[i].fn = "local_image_gen.generate_image"
              /\ ~useLocal => calls[i].fn = "replicate_client.generate_image"
              /\ gres.paths = calls[i].ret
        /\ ~gres.raised
        /\ gres.metadata.backend = (IF useLocal THEN "local" ELSE "replicate")
        /\ gres.metadata.model = (IF useLocal THEN "SD_MODEL" ELSE "project.model")

\* C11 witness: with the local backend configured, a call asking for two
\* outputs returned the two paths the local backend handed back.
C11_Witness ==
    /\ gpc = "returned"
    /\ useLocal
    /\ num_outputs = 2
    /\ calls[Len(calls)].fn = "local_image_gen.generate_image"
    /\ calls[Len(calls)].ret = <<1, 2>>
    /\ gres.paths = <<1, 2>>
    /\ gres.metadata.backend = "local"

\* C12: generate_image either returns exactly num_outputs paths or raises;
\* it never returns normally with fewer paths than were requested, and a
\* backend exception is re-raised.
C12_FullSetOrRaise ==
    /\ gpc = "returned" => Len(gres.paths) = num_outputs
    /\ gpc = "raised" => gres.raised

\* ------------------------------------------------------------------------
\* Properties of the session (checked under SpecSession)
\* ------------------------------------------------------------------------

\* The workers of one kind whose blocking call (the generate backend, or
\* create_slideshow) is in flight.
InFlight(kind, pc) == {w \in Slots : workers[w].kind = kind /\ workers[w].pc = pc}

\* C13: at no time is more than one generate backend call in flight, nor
\* more than one create_slideshow call; a second generate request made
\* while one is in flight never leads to two backend calls running at once.
C13_OneCallPerKind ==
    /\ Cardinality(InFlight("generate", "backend")) <= 1
    /\ Cardinality(InFlight("video", "slideshow")) <= 1

\* C14: exclusion is per kind: a generate request made while a create_video
\* worker is in flight does not cancel that worker, and a create_video
\* request made while a generate worker is in flight does not cancel the
\* generate worker.
C14_NoCancelAcrossKinds ==
    \A w \in Slots :
        (Active(w) /\ workers[w].cancelled) => workers[w].by = workers[w].kind

\* The session state the operator sees and acts on.
UiState == <<message, is_working, images, cursor, selected, input>>

\* C15: every change of the status message, the busy flag, the item list,
\* the cursor, the selection or the prompt input value is made by a step
\* that runs on the interactive thread; no step of a worker thread writes
\* that state.
C15_WritesOnInteractiveThread ==
    [][(UiState' # UiState) => thr' = "ui"]_vars

\* C15 witness: the "Generating with ..." status of a generate worker has
\* been written, by a step of the interactive thread, while the worker's
\* thread waits to go on.
C15_Witness ==
    /\ thr = "ui"
    /\ message.kind = "generating"
    /\ is_working
    /\ \E w \in Slots : workers[w].kind = "generate" /\ workers[w].pc = "call"

\* Worker w of the given kind leaves pc in this step.
Leaves(w, kind, pc) ==
    /\ workers[w].kind = kind
    /\ workers[w].pc = pc
    /\ workers'[w].pc # pc

\* C16: when the backend call of a generate worker fails, the status
\* becomes "Error: " followed by at most 50 characters of the error text,
\* the session keeps running, and neither the failure nor the status step
\* changes the item list, the cursor or the selection.
C16_FailureKeepsList ==
    [][\A w \in Slots :
          /\ (Leaves(w, "generate", "backend") /\ workers'[w].pc = "cb_error") =>
                /\ UNCHANGED <<images, cursor, selected, message, is_working>>
                /\ app' = "running"
          /\ Leaves(w, "generate", "cb_error") =>
                /\ message'.kind = "error"
                /\ Len(message'.text) <= Len(ErrorPrefix) + 50
                /\ \E n \in 0 .. 50 :
                      message'.text = ErrorPrefix \o SubSeq(workers[w].err, 1, n)
                /\ Len(workers[w].err) <= 50 =>
                      message'.text = ErrorPrefix \o workers[w].err
                /\ ~is_working'
                /\ app' = "running"
                /\ UNCHANGED <<images, cursor, selected>>]_vars

\* C16 witness: after a prompt was typed and "g" pressed, the backend
\* failed with a 51-character error; the status holds its first 50
\* characters, the session runs, and the list still shows the directory's
\* one file with nothing selected.
C16_Witness ==
    /\ keys = 2
    /\ input # <<>>
    /\ message.kind = "error"
    /\ Len(message.text) = Len(ErrorPrefix) + 50
    /\ ~is_working
    /\ app = "running"
    /\ images = <<1>>
    /\ \A w \in Slots : ~Active(w)

\* C17: when the backend call of a generate worker succeeds, the session
\* first refreshes (the item list becomes the listing of the active
\* project's images directory, cursor 0, selection empty) and only then
\* posts the count status, with the busy flag cleared; the count is the
\* number of paths the backend returned.
C17_RefreshThenCount ==
    [][\A w \in Slots :
          /\ (Leaves(w, "generate", "backend") /\ workers'[w].pc # "cb_error") =>
                /\ ~workers'[w].refreshed
                /\ workers'[w].n =
                      Cardinality(storage'[workers[w].proj] \ storage[workers[w].proj])
          /\ Leaves(w, "generate", "cb_refresh") =>
                /\ images' = get_project_images(storage, current_project)
                /\ cursor' = 0
                /\ selected' = {}
          /\ Leaves(w, "generate", "cb_generated") =>
                /\ workers[w].refreshed
                /\ message' = [kind |-> "generated", count |-> workers[w].n]
                /\ ~is_working']_vars

\* C17 witness: a generate worker whose backend returned one path has
\* refreshed the list, which shows the old and the new file, and has posted
\* "Generated 1 image(s)" with the busy flag cleared.
C17_Witness ==
    /\ message = [kind |-> "generated", count |-> 1]
    /\ ~is_working
    /\ images = <<1, 2>>
    /\ cursor = 0
    /\ selected = {}
    /\ \E w \in Slots : workers[w].refreshed /\ workers[w].pc = "cb_clear"

\* The step is one of action_delete_selected.
DeleteStep == action_delete_selected

\* C18: delete_selected attempts the deletion of exactly the items at the
\* selected positions of the list as it stood, in strictly descending
\* order of position, and then refreshes, which leaves the selection
\* empty and the cursor at 0; with an empty selection it deletes nothing
\* and does not refresh.
C18_DeleteDescending ==
    [][DeleteStep =>
          IF selected = {}
          THEN /\ message'.kind = "none_selected"
               /\ attempts' = <<>>
               /\ UNCHANGED <<images, cursor, selected, storage>>
          ELSE LET pos(f) == CHOOSE i \in 0 .. Len(images) - 1 : images[i + 1] = f
               IN  /\ Len(attempts') = Cardinality(selected)
                   /\ {pos(attempts'[k]) : k \in 1 .. Len(attempts')} = selected
                   /\ \A k \in 1 .. Len(attempts') - 1 :
                         pos(attempts'[k]) > pos(attempts'[k + 1])
                   /\ storage[current_project] \ storage'[current_project]
                         \subseteq {attempts'[k] : k \in 1 .. Len(attempts')}
                   /\ images' = get_project_images(storage', current_project)
                   /\ selected' = {}
                   /\ cursor' = 0]_vars

\* C18 witness: with positions 0 and 2 of a three-item list selected,
\* delete_selected tried the third file, then the first, and the refreshed
\* list has the cursor at 0 and nothing selected.
C18_Witness ==
    /\ attempts = <<3, 1>>
    /\ message.kind = "deleted"
    /\ selected = {}
    /\ cursor = 0
    /\ images = get_project_images(storage, current_project)

\* C19: when some of the selected items fail to delete, delete_selected
\* still attempts the others, and its status states how many deletions
\* succeeded out of how many were requested.
C19_ReportsSucceededOfRequested ==
    (attempts # <<>> /\ message.kind = "deleted") =>
        /\ message.count <= Len(attempts)
        /\ "requested" \in DOMAIN message
        /\ message.requested = Len(attempts)

\* C20: create_slideshow is only ever called with a non-empty sequence of
\* paths, those of the selected items in ascending index order, every
\* index within the item list the worker read, whatever the operator does
\* to the selection while the worker runs.
C20_SlideshowArgument ==
    \A w \in Slots :
        (workers[w].kind = "video" /\ workers[w].pc = "slideshow") =>
            /\ workers[w].paths # <<>>
            /\ Len(workers[w].paths) = Len(workers[w].idx)
            /\ \A k \in 1 .. Len(workers[w].idx) :
                  /\ workers[w].idx[k] < Len(workers[w].imgs)
                  /\ workers[w].paths[k] = workers[w].imgs[workers[w].idx[k] + 1]
                  /\ k > 1 => workers[w].idx[k - 1] < workers[w].idx[k]

\* ---------------------------------------------------------------------
\* Project keys, refresh and the keys that open a file or a folder.

\* What a completed refresh of project slug leaves behind: the session
\* runs, slug is active, the list is the listing of slug's storage, the
\* cursor is on the first row and nothing is selected.
Refreshed(slug) ==
    /\ app' = "running"
    /\ current_project' = slug
    /\ slug \in DOMAIN storage'
    /\ images' = get_project_images(storage', slug)
    /\ cursor' = 0
    /\ selected' = {}

\* C21: every project key (1, 2, 3) makes its project the active one and
\* refreshes: afterwards the list is the listing of that project's storage,
\* the cursor is 0 and the selection is empty.
C21_SwitchRefreshes ==
    [][\A slug \in AppSlugs : select_project(slug) => Refreshed(slug)]_vars

\* The steps in which refresh_images is called: on mount, by the watcher
\* of the active project, after a deletion and from the generate worker.
RefreshCalled ==
    \/ on_mount
    \/ \E slug \in AppSlugs : slug # current_project /\ select_project(slug)
    \/ selected # {} /\ action_delete_selected
    \/ \E w \in Slots : cb_refresh(w)

\* C22: a refresh never fails, in whatever state it is called (a generate
\* worker in flight included): afterwards the session runs, the list is
\* the listing of the active project's storage at that moment, the cursor
\* is 0 and the selection is empty.
C22_RefreshSafe ==
    [][RefreshCalled => Refreshed(current_project')]_vars

\* C23: the keys that open the item under the cursor or the project's
\* folder change nothing inside the session: active project, list, cursor,
\* selection, status message and busy flag are as before.
C23_OpenLeavesState ==
    [][(action_open_image \/ action_browse) =>
          UNCHANGED <<current_project, images, cursor, selected, message,
                      is_working>>]_vars

\* C29: in every state of a session the active project's slug is a key of
\* the registry, and resolving it never fails.
C29_ActiveProjectRegistered ==
    app # "none" => (current_project \in PROJECTS /\ app # "crashed")

\* ---------------------------------------------------------------------
\* The busy flag.

\* Worker w has posted its 'working' status (line 415 or 435) and not yet
\* its final one (420 or 423; 440 or 442).
Working(w) ==
    \/ /\ workers[w].kind = "generate"
       /\ workers[w].pc \in {"call", "backend", "cb_refresh", "cb_generated", "cb_error"}
    \/ /\ workers[w].kind = "video"
       /\ workers[w].pc \in {"build", "slideshow", "cb_saved", "cb_error"}

\* C30: the busy flag is true whenever a generate or create_video worker
\* is between its 'working' status and its final status, whatever keys are
\* pressed and whatever the other kind of worker does meanwhile, and it is
\* false once no worker is in flight.
C30_BusyTracksWork ==
    app = "running" =>
        /\ (\E w \in Slots : Working(w)) => is_working
        /\ (\A w \in Slots : ~Active(w)) => ~is_working

\* ---------------------------------------------------------------------
\* The probe before the enhancement call.

\* C26: the enhancement service is called only when enhancement is on for
\* the call (enhance_prompt option and USE_OLLAMA) and the probe has just
\* answered available, the probe being the call right before it; when the
\* probe answers unavailable there is no enhancement call and the metadata
\* say the prompt was not enhanced.
C26_ProbeGatesEnhancement ==
    /\ \A i \in DOMAIN calls :
          calls[i].fn = "ollama_client.enhance_prompt" =>
             /\ genhance /\ useOllama
             /\ probe
             /\ i > 1 /\ calls[i - 1].fn = "ollama_client.is_available"
    /\ \A i \in DOMAIN calls :
          (calls[i].fn = "ollama_client.is_available" /\ ~probe) =>
             /\ \A j \in DOMAIN calls : calls[j].fn # "ollama_client.enhance_prompt"
             /\ gpc \in {"backend", "returned"} => metadata["enhanced"] = FALSE

\* The probe answered available, the chat call followed and its text
\* replaced the prompt.
C26_Witness ==
    /\ gpc = "returned"
    /\ Len(calls) = 3
    /\ calls[1].fn = "ollama_client.is_available"
    /\ calls[2].fn = "ollama_client.enhance_prompt"
    /\ metadata["enhanced"] = TRUE

\* ------------------------------------------------------------------------
\* ImageList.render (src/hawk/app.py:101-147): the visible window
\* ------------------------------------------------------------------------

\* The literal of `self.cursor - 8`.
LookBack == 8

\* The literal of `start + 18`.
VisibleRows == 18

\* The range with the whole look-back as wide as the window.
render_window_WideLookBack(n, c) ==
    LET start == Max2(0, c - VisibleRows)
    IN  [start |-> start, end |-> Min2(n, start + VisibleRows)]

\* Lines 107-108: the range(start, end) of rows drawn for n images with
\* the cursor at c.
render_window(n, c) ==
    LET start == Max2(0, c - LookBack)
    IN  [start |-> start, end |-> Min2(n, start + VisibleRows)]

\* Lines 101-135: what render shows of the widget state st: the
\* placeholder for an empty list, else the rows of the window and, for a
\* list longer than the window, the scroll indicator.
render(st) ==
    IF st.images = <<>>
    THEN [kind |-> "empty"]
    ELSE LET r == render_window(Len(st.images), st.cursor)
         IN  [kind |-> "rows", len |-> Len(st.images), cursor |-> st.cursor,
              start |-> r.start, end |-> r.end,
              indicator |-> (Len(st.images) > VisibleRows)]

\* A widget holding any list of up to MaxItems images with the cursor on
\* any of its rows, as set_images and the cursor moves leave it.
InitRender ==
    /\ \E n \in 0 .. MaxItems : images = [i \in 1 .. n |-> i]
    /\ cursor \in 0 .. Max2(0, Len(images) - 1)
    /\ selected = {}
    /\ op = "init"
    /\ arg = <<>>
    /\ pre = ImageListInit
    /\ EnhIdle
    /\ GenIdle
    /\ SessIdle
    /\ AuxIdle

\* The framework draws the widget.
Render ==
    /\ window' = render(Cur)
    /\ UNCHANGED <<listVars, enhVars, genVars, sessVars, mainVars, batchVars>>

NextRender ==
    \/ Render
    \/ MoveUp
    \/ MoveDown

SpecRender == InitRender /\ [][NextRender]_vars

\* C24: for every list length and every valid cursor the window
\* [start, end) render draws has 0 <= start <= cursor < end <= length,
\* starts at most 8 rows before the cursor and holds at most 18 rows.
C24_CursorInWindow ==
    window.kind = "rows" =>
        /\ 0 <= window.start
        /\ window.start <= window.cursor
        /\ window.cursor < window.end
        /\ window.end <= window.len
        /\ window.cursor - window.start <= 8
        /\ window.end - window.start <= 18

\* A window in the middle of a long list: rows are cut off on both sides.
C24_Witness ==
    /\ window.kind = "rows"
    /\ window.start > 0
    /\ window.end < window.len
    /\ window.cursor = cursor

\* ------------------------------------------------------------------------
\* The entry points (src/hawk/main.py:66-124, src/hawk/app.py:456-459)
\* hawk.setup and hawk.local_image_gen are not part of the sources at
\* hand: run_setup and show_config return, config_exists answers yes or
\* no, preload_model answers True or False or raises.
\* ------------------------------------------------------------------------

\* args[0].lower(), by the branch of main() it takes; "none" is no argument.
Commands == {"none", "init", "config", "help", "version", "bogus"}

\* The test of line 119 with the model loaded whatever the backend.
PreloadWanted_Always == TRUE

\* Line 119: `if USE_LOCAL_IMAGE_GEN`.
PreloadWanted == useLocal

\* A process is started through hawk.main or hawk.app; configured says
\* whether a configuration or an environment is found (lines 101-103),
\* response is the answer to the first-run question (109).
InitMain ==
    /\ ListInit
    /\ EnhIdle
    /\ SessIdle
    /\ useLocal \in BOOLEAN
    /\ gpc = "idle"
    /\ genhance = FALSE
    /\ num_outputs = 1
    /\ metadata = <<>>
    /\ final_prompt = <<>>
    /\ calls = <<>>
    /\ gres = <<>>
    /\ window = [kind |-> "none"]
    /\ proc \in [entry : {"hawk.main", "hawk.app"}, cmd : Commands,
                 configured : BOOLEAN, response : {"y", "n"}]
    /\ mpc = "start"
    /\ preloads = 0
    /\ loading = FALSE
    /\ prompts = <<>>
    /\ enhance_prompts = FALSE
    /\ bpc = "idle"
    /\ all_paths = <<>>
    /\ all_metadata = <<>>
    /\ gcalls = <<>>
    /\ bres = <<>>

\* A step of main(): it moves to pc, having called preload_model n times
\* more, and is inside that call or not.
MainStep(pc, n, inside) ==
    /\ mpc' = pc
    /\ preloads' = preloads + n
    /\ loading' = inside
    /\ UNCHANGED <<proc, listVars, enhVars, genVars, sessVars, renderVars, batchVars>>

\* Lines 70-94: a subcommand is served and main() returns, or exits with
\* status 1 on an unknown one.
main_subcommand ==
    /\ mpc = "start"
    /\ proc.entry = "hawk.main"
    /\ proc.cmd # "none"
    /\ MainStep(IF proc.cmd = "bogus" THEN "exit_1" ELSE "returned", 0, FALSE)

\* Lines 97-113: the first-run check; setup on request, then return.
main_first_run ==
    /\ mpc = "start"
    /\ proc.entry = "hawk.main"
    /\ proc.cmd = "none"
    /\ MainStep(IF ~proc.configured /\ proc.response = "y" THEN "returned" ELSE "config",
                0, FALSE)

\* Lines 116-120 and 11-30: with the local backend configured,
\* _preload_local_model is entered and calls preload_model.
main_preload ==
    /\ mpc = "config"
    /\ IF PreloadWanted
       THEN MainStep("preload", 1, TRUE)
       ELSE MainStep("start_tui", 0, FALSE)

\* Lines 30-38, 120: preload_model answers and _preload_local_model
\* returns that answer, which main() ignores; or it raises and main() ends.
preload_model_returns ==
    /\ mpc = "preload"
    /\ \E r \in {"True", "False", "raises"} :
          MainStep(IF r = "raises" THEN "raised" ELSE "start_tui", 0, FALSE)

\* Lines 122-124: `from hawk.app import HawkTUI`. hawk.app defines the
\* class HawkApp and no HawkTUI, so the import raises ImportError and no
\* session is started.
main_start_tui ==
    /\ mpc = "start_tui"
    /\ MainStep("import_error", 0, FALSE)

\* app.py:456-459: HawkApp().run().
app_main ==
    /\ mpc = "start"
    /\ proc.entry = "hawk.app"
    /\ MainStep("session", 0, FALSE)

NextMain ==
    \/ main_subcommand
    \/ main_first_run
    \/ main_preload
    \/ preload_model_returns
    \/ main_start_tui
    \/ app_main

SpecMain == InitMain /\ [][NextMain]_vars

BatchBackend(i) ==
    {[raised |-> TRUE, error |-> i]} \cup
    {[raised |-> FALSE, paths |-> [j \in 1 .. k |-> <<i, BackendPaths(k)[j]>>]] :
        k \in BackendCounts}

\* generate_image(project, p, enhance_prompt=e) (lines 116-174) as one
\* call: avail and s are what the probe and the chat call do, b what the
\* backend does. The backend's exception is re-raised (172-174).
generate_image(p, e, avail, s, b) ==
    LET meta == [original_prompt |-> p, enhanced |-> FALSE, backend |-> BackendName]
        r    == maybe_enhance_prompt(p, useOllama, avail, s)
        sent == IF e /\ useOllama THEN r.value ELSE p
        md   == IF e /\ useOllama
                THEN Put(Put(meta, "enhanced", r.was_enhanced), "final_prompt", r.value)
                ELSE meta
    IN  IF b.raised
        THEN [raised |-> TRUE, error |-> b.error, fn |-> BackendFn, sent |-> sent]
        ELSE [raised |-> FALSE, paths |-> b.paths,
              metadata |-> Put(md, "model", BackendModel),
              fn |-> BackendFn, sent |-> sent]

\* list.extend with the new items put in front.
extend_Front(xs, ys) == ys \o xs

\* Line 194: all_paths.extend(paths).
extend(xs, ys) == xs \o ys

\* The loop with the failing prompt skipped.
on_error_Continue == "continue"

\* Lines 187-193: the call of generate_image stands in no try block, so
\* its exception leaves the loop and generate_batch.
on_error == "propagate"

InitBatch ==
    /\ ListInit
    /\ SessIdle
    /\ prompt = <<>>
    /\ svc = [kind |-> "none", text |-> <<>>]
    /\ probe = FALSE
    /\ useOllama \in BOOLEAN
    /\ ecall = "none"
    /\ eres = <<>>
    /\ useLocal \in BOOLEAN
    /\ gpc = "idle"
    /\ genhance = FALSE
    /\ num_outputs = 1
    /\ metadata = <<>>
    /\ final_prompt = <<>>
    /\ calls = <<>>
    /\ gres = <<>>
    /\ window = [kind |-> "none"]
    /\ proc = [entry |-> "none"]
    /\ mpc = "idle"
    /\ preloads = 0
    /\ loading = FALSE
    /\ prompts \in UNION {[1 .. n -> Prompts] : n \in 0 .. MaxPrompts}
    /\ enhance_prompts \in BOOLEAN
    /\ bpc = "loop"
    /\ all_paths = <<>>
    /\ all_metadata = <<>>
    /\ gcalls = <<>>
    /\ bres = <<>>

\* What the i-th generate_image call of the batch may do: the probe
\* answers either way, the chat call times out or rewrites the prompt.
BatchOutcomes(i) ==
    {generate_image(prompts[i], enhance_prompts, avail, s, b) :
        avail \in BOOLEAN,
        s \in {[kind |-> "timeout", text |-> <<>>],
               [kind |-> "text", text |-> TextOf(3, NoBreaks)]},
        b \in BatchBackend(i)}

\* Lines 187-193: the loop calls generate_image for the next prompt, the
\* i-th; r is what the call does.
BatchCall(i, r) ==
    /\ gcalls' = Append(gcalls,
           [prompt |-> prompts[i], enhance_prompt |-> enhance_prompts,
            raised |-> r.raised, fn |-> r.fn, sent |-> r.sent,
            paths |-> IF r.raised THEN <<>> ELSE r.paths])
    /\ UNCHANGED <<prompts, enhance_prompts, listVars, enhVars, genVars, sessVars,
                   renderVars, mainVars>>

\* Lines 187-195: generate_image returns; its paths and its metadata are
\* added to the two lists.
batch_generate_returns ==
    /\ bpc = "loop"
    /\ Len(gcalls) < Len(prompts)
    /\ \E r \in BatchOutcomes(Len(gcalls) + 1) :
          /\ ~r.raised
          /\ BatchCall(Len(gcalls) + 1, r)
          /\ all_paths' = extend(all_paths, r.paths)
          /\ all_metadata' = Append(all_metadata, r.metadata)
    /\ UNCHANGED <<bpc, bres>>

\* Lines 187-193: generate_image raises.
batch_generate_raises ==
    /\ bpc = "loop"
    /\ Len(gcalls) < Len(prompts)
    /\ \E r \in BatchOutcomes(Len(gcalls) + 1) :
          /\ r.raised
          /\ BatchCall(Len(gcalls) + 1, r)
          /\ IF on_error = "propagate"
             THEN /\ bpc' = "raised"
                  /\ bres' = [raised |-> TRUE, error |-> r.error]
             ELSE UNCHANGED <<bpc, bres>>
    /\ UNCHANGED <<all_paths, all_metadata>>

\* Line 197: the loop is over; both lists go back to the caller.
batch_return ==
    /\ bpc = "loop"
    /\ Len(gcalls) = Len(prompts)
    /\ bpc' = "returned"
    /\ bres' = [raised |-> FALSE, paths |-> all_paths, metadata |-> all_metadata]
    /\ UNCHANGED <<prompts, enhance_prompts, all_paths, all_metadata, gcalls,
                   listVars, enhVars, genVars, sessVars, renderVars, mainVars>>

NextBatch ==
    \/ batch_generate_returns
    \/ batch_generate_raises
    \/ batch_return

SpecBatch == InitBatch /\ [][NextBatch]_vars

\* C27: when every prompt succeeds, generate_batch has called
\* generate_image once per prompt in the order of the input, and returns
\* the produced items of all calls concatenated in that order together
\* with one metadata record per prompt, the k-th carrying the k-th prompt
\* as original_prompt.
C27_BatchInOrder ==
    bpc = "returned" =>
        /\ Len(gcalls) = Len(prompts)
        /\ \A k \in DOMAIN gcalls :
              /\ gcalls[k].prompt = prompts[k]
              /\ ~gcalls[k].raised
              /\ \A j \in DOMAIN gcalls[k].paths :
                    \E a \in DOMAIN bres.paths : bres.paths[a] = gcalls[k].paths[j]
        /\ \A a \in DOMAIN bres.paths :
              \E k \in DOMAIN gcalls :
                 \E j \in DOMAIN gcalls[k].paths :
                    bres.paths[a] = gcalls[k].paths[j]
        /\ \A a, b \in DOMAIN bres.paths :
              a < b =>
                 \/ bres.paths[a][1] < bres.paths[b][1]
                 \/ /\ bres.paths[a][1] = bres.paths[b][1]
                    /\ bres.paths[a][2] < bres.paths[b][2]
        /\ Len(bres.metadata) = Len(prompts)
        /\ \A k \in DOMAIN prompts :
              bres.metadata[k]["original_prompt"] = prompts[k]

\* A batch of three prompts, not all the same, has returned more items
\* than prompts.
C27_Witness ==
    /\ bpc = "returned"
    /\ Len(prompts) = 3
    /\ prompts[1] # prompts[2]
    /\ Len(bres.paths) > 3

\* C28: when the backend fails on the k-th prompt, generate_batch raises
\* that error: no call is made for a later prompt, and the caller gets
\* neither the items nor the metadata gathered before k.
C28_AbortOnFirstFailure ==
    \A k \in DOMAIN gcalls :
        gcalls[k].raised =>
            /\ k = Len(gcalls)
            /\ bpc = "raised"
            /\ bres = [raised |-> TRUE, error |-> k]

\* The second of three prompts failed after the first had produced items.
C28_Witness ==
    /\ bpc = "raised"
    /\ Len(prompts) = 3
    /\ Len(gcalls) = 2
    /\ all_paths # <<>>
    /\ bres.raised

\* ---------------------------------------------------------------------
\* The project of a generate request.

\* C31: the project a generate worker passes to the backend (line 418) is
\* the one its "Generating with <project>..." status named (line 415),
\* whatever project keys are pressed while the worker is in flight.
C31_BackendProjectIsNamed ==
    [][\A w \in Slots :
          generate_call_backend(w) => workers'[w].proj = workers[w].proj]_vars


====
